---- MODULE Spec2Model ----
(***************************************************************************)
(* cute-lights/rust-sdk: the discovery pass (discover.rs), the Govee UDP   *)
(* client (integrations/govee.rs) and the OpenRGB client                   *)
(* (integrations/openrgb.rs).                                              *)
(*                                                                         *)
(* Not in the source tree and modelled from the specification: the batch   *)
(* executor (utils::future::FutureBatch), the Kasa and Hue integrations,   *)
(* the configuration loader and utils::json::boolean_int.                  *)
(***************************************************************************)
EXTENDS Integers, Sequences, FiniteSets, TLC

VARIABLES
    config,     \* CuteLightsConfig snapshot: enabled flags, govee.addresses, openrgb.address
    mainpc,     \* position of discover_lights: "register", "running", "done"
    regIdx,     \* next register::<I>() call of discover_lights (1..4)
    batch,      \* Discoverer.batch: the submitted tasks, in submission order
    tasks,      \* per integration task: [pc, value]
    gsock,      \* the Govee client socket (local port ClientPort): bound or not
    gtasks,     \* the per-address tasks of GoveeIntegration::discover
    toDevice,   \* devStatus requests sent and not yet handled by their device
    inbox,      \* datagrams queued on the shared client socket
    octl,       \* OpenRGB discover: [count, idx, lights]
    aggregate,  \* the Vec<Box<dyn Light>> returned by discover_lights
    log,        \* diagnostics written with eprintln!
    netops,     \* integrations that performed a network operation
    invoked,    \* integrations whose discover was invoked
    outcome,    \* what each discover returned: [ret: "none" | "ok" | "err", lights]
    hpc,        \* per returned handle: "idle", or "recv" inside refresh_state
    last        \* the caller's last completed Light operation and its result

vars == <<config, mainpc, regIdx, batch, tasks, gsock, gtasks, toDevice, inbox,
          octl, aggregate, log, netops, invoked, outcome, hpc, last>>

\* state of the caller's use of the returned handles
callerVars == <<hpc, last>>

-----------------------------------------------------------------------------
(* Bounds *)

MaxAddrs == 2          \* length of govee.addresses
MaxControllers == 2    \* controllers an OpenRGB server reports
MaxOps == 2            \* Light operations the caller runs on the returned handles

-----------------------------------------------------------------------------
(* Program constants and data *)

\* a registration order with Hue and Govee exchanged
RegistrationSwapped == <<"kasa", "govee", "hue", "openrgb">>

\* discover_lights registers the integrations in this order.
Registration == <<"kasa", "hue", "govee", "openrgb">>

Integrations == {"kasa", "hue", "govee", "openrgb"}

\* Strings a user may write in govee.addresses; the last is no IPv4 address.
ValidAddrs == {"10.0.0.5", "10.0.0.6"}
Addrs == ValidAddrs \cup {"nonsense"}

\* ip.parse::<Ipv4Addr>() of GoveeLight::new
ParsesAsIpv4(ip) == ip \in ValidAddrs

\* config.openrgb.address.parse::<IpAddr>(); the default "localhost" is no IP address
ParsesAsIp(a) == a = "127.0.0.1"

\* the port of a Govee device (GoveeLight::new)
DevicePort == 4003

\* the local port GoveeIntegration::discover binds its client socket to; a
\* bind to port 0 would ask the system for a free (ephemeral) port
ClientPort == 4002

\* utils::json::boolean_int: 1 -> true, 0 -> false
boolean_int(n) == n = 1

\* colours used as LED colours and as set_color arguments
Colours == { [r |-> 1, g |-> 2, b |-> 3], [r |-> 255, g |-> 0, b |-> 0] }

\* brightness arguments of set_brightness (u8)
Levels == {50, 255}

\* colours an OpenRGB controller reports: no LED at all, or one LED
ControllerColors == { <<>>, <<[r |-> 1, g |-> 2, b |-> 3]>> }

\* results a Kasa or Hue discover may return
ExternalLights(name) ==
    { <<[vendor |-> name, id |-> "10.0.0.5"]>> }

-----------------------------------------------------------------------------
(* Sequences *)

RECURSIVE Flatten(_)
Flatten(ss) == IF ss = <<>> THEN <<>> ELSE Head(ss) \o Flatten(Tail(ss))

SeqsUpTo(S, n) == UNION { [1..k -> S] : k \in 0..n }


-----------------------------------------------------------------------------
(* Lights *)

\* GoveeLight as built by GoveeLight::new before its first refresh_state
GoveeLightNew(ip) ==
    [vendor |-> "govee", id |-> ip, is_on |-> FALSE, brightness |-> 0,
     red |-> 0, green |-> 0, blue |-> 0]

\* OpenRgbLight as built by OpenRgbIntegration::discover
OpenRgbLightNew(controller_id, colors) ==
    [vendor |-> "openrgb", controller_id |-> controller_id,
     colors |-> colors, name |-> "controller"]

\* The status a device reports when it answers devStatus
DeviceStatus(ip) ==
    IF ip = "10.0.0.5"
    THEN [onOff |-> 1, brightness |-> 80,  r |-> 10, g |-> 20, b |-> 30]
    ELSE [onOff |-> 0, brightness |-> 200, r |-> 0,  g |-> 0,  b |-> 255]

\* What a device may put on the wire in answer to a request: its status, or
\* something else (the response of another command, bytes that do not parse,
\* a datagram longer than the 1024-byte buffer)
Replies(ip) ==
    { [kind |-> "devStatus", status |-> DeviceStatus(ip)],
      [kind |-> "other",     status |-> DeviceStatus(ip)] }

\* a refresh that stores the flag and the brightness and forgets the colour
ApplyStatusLosesColour(light, status) ==
    [light EXCEPT !.is_on = boolean_int(status.onOff),
                  !.brightness = status.brightness % 256]

\* refresh_state, lines 55-59: the cache after a devStatus response
ApplyStatus(light, status) ==
    [light EXCEPT !.is_on = boolean_int(status.onOff),
                  !.brightness = status.brightness % 256,
                  !.red = status.r, !.green = status.g, !.blue = status.b]

-----------------------------------------------------------------------------
(* Results of discover and the task built by Discoverer::register *)

Ok(lights) == [ok |-> TRUE, lights |-> lights]
Err == [ok |-> FALSE, lights |-> <<>>]

\* Integration::preflight
Preflight(name) == config.enabled[name]

\* The async block of register: Ok(lights) => lights, Err(e) => Vec::new()
RegisterTask(r) == [pc |-> "done", value |-> IF r.ok THEN r.lights ELSE <<>>]

\* eprintln! of register's Err arm
RegisterLog(name, r) ==
    IF r.ok THEN {} ELSE { <<"Failed to discover lights for", name>> }

\* The task of integration `name` ends: discover returned r
Finish(name, r) ==
    /\ tasks' = [tasks EXCEPT ![name] = RegisterTask(r)]
    /\ log' = log \cup RegisterLog(name, r)
    /\ outcome' = [outcome EXCEPT ![name] =
                      [ret |-> IF r.ok THEN "ok" ELSE "err", lights |-> r.lights]]

-----------------------------------------------------------------------------
(* Batch executor (utils::future::FutureBatch) *)

\* an executor that returns as soon as one task has completed
BatchCompleteAny(b) == \E k \in 1..Len(b) : tasks[b[k]].pc = "done"

\* run() may return: every submitted task has completed
BatchComplete(b) == \A k \in 1..Len(b) : tasks[b[k]].pc = "done"

\* the collection run() returns: one result per submission, in submission order
BatchResults(b) == [k \in 1..Len(b) |-> tasks[b[k]].value]

\* the same executor, used by GoveeIntegration::discover for its addresses
GoveeBatchComplete == \A t \in 1..Len(gtasks) : gtasks[t].pc = "done"

RECURSIVE GoveeBatchResults(_)
GoveeBatchResults(ts) ==
    IF ts = <<>> THEN <<>>
    ELSE (IF Head(ts).ok THEN << <<Head(ts).light>> >> ELSE << <<>> >>)
         \o GoveeBatchResults(Tail(ts))

\* a run that gives up the whole pass when one discover failed
DiscovererRunShortCircuit(results) ==
    IF \E n \in Integrations : outcome[n].ret = "err" THEN <<>> ELSE Flatten(results)

\* Discoverer::run: flatten the per-integration lists
DiscovererRun(results) == Flatten(results)

-----------------------------------------------------------------------------
(* Init *)

\* no Light operation was called yet
NoOp == [n |-> 0, op |-> "none", idx |-> 0, ok |-> TRUE, args |-> <<>>,
         before |-> <<>>, sent |-> <<>>, recvs |-> <<>>]

Init ==
    /\ config \in [enabled : [Integrations -> BOOLEAN],
                   addresses : SeqsUpTo(Addrs, MaxAddrs),
                   openrgbAddress : {"localhost", "127.0.0.1"}]
    \* OpenRgbConfig::default(): the address is "localhost" unless configured
    /\ ~config.enabled["openrgb"] => config.openrgbAddress = "localhost"
    /\ mainpc = "register"
    /\ regIdx = 1
    /\ batch = <<>>
    /\ tasks = [n \in Integrations |-> [pc |-> "idle", value |-> <<>>]]
    /\ gsock = FALSE
    /\ gtasks = <<>>
    /\ toDevice = {}
    /\ inbox = <<>>
    /\ octl = [count |-> 0, idx |-> 0, lights |-> <<>>]
    /\ aggregate = <<>>
    /\ log = {}
    /\ netops = {}
    /\ invoked = {}
    /\ outcome = [n \in Integrations |-> [ret |-> "none", lights |-> <<>>]]
    /\ hpc = <<>>
    /\ last = NoOp

-----------------------------------------------------------------------------
(* discover_lights and Discoverer *)

\* a register that submits the task without asking preflight
RegisterNoGate ==
    /\ mainpc = "register"
    /\ regIdx <= Len(Registration)
    /\ batch' = Append(batch, Registration[regIdx])
    /\ tasks' = [tasks EXCEPT ![Registration[regIdx]].pc = "ready"]
    /\ regIdx' = regIdx + 1
    /\ UNCHANGED <<config, mainpc, gsock, gtasks, toDevice, inbox, octl,
                   aggregate, log, netops, invoked, outcome, callerVars>>

\* discoverer.register::<I>() for the next integration type
Register ==
    /\ mainpc = "register"
    /\ regIdx <= Len(Registration)
    /\ LET name == Registration[regIdx] IN
         IF Preflight(name)
         THEN /\ batch' = Append(batch, name)
              /\ tasks' = [tasks EXCEPT ![name].pc = "ready"]
         ELSE UNCHANGED <<batch, tasks>>
    /\ regIdx' = regIdx + 1
    /\ UNCHANGED <<config, mainpc, gsock, gtasks, toDevice, inbox, octl,
                   aggregate, log, netops, invoked, outcome, callerVars>>

\* discoverer.run() is called: the executor starts every submitted task
RunStart ==
    /\ mainpc = "register"
    /\ regIdx > Len(Registration)
    /\ mainpc' = "running"
    /\ UNCHANGED <<config, regIdx, batch, tasks, gsock, gtasks, toDevice, inbox,
                   octl, aggregate, log, netops, invoked, outcome, callerVars>>

\* discoverer.run() returns the flattened results
RunReturn ==
    /\ mainpc = "running"
    /\ BatchComplete(batch)
    /\ aggregate' = DiscovererRun(BatchResults(batch))
    /\ hpc' = [i \in 1..Len(aggregate') |-> "idle"]
    /\ mainpc' = "done"
    /\ UNCHANGED <<config, regIdx, batch, tasks, gsock, gtasks, toDevice, inbox,
                   octl, log, netops, invoked, outcome, last>>

-----------------------------------------------------------------------------
(* Kasa and Hue: external integrations behind the Integration interface *)

ExternalDiscover(name) ==
    /\ name \in {"kasa", "hue"}
    /\ mainpc = "running"
    /\ tasks[name].pc = "ready"
    /\ invoked' = invoked \cup {name}
    /\ netops' = netops \cup {name}
    /\ \E r \in {Err} \cup { Ok(l) : l \in ExternalLights(name) } : Finish(name, r)
    /\ UNCHANGED <<config, mainpc, regIdx, batch, gsock, gtasks, toDevice, inbox,
                   octl, aggregate, callerVars>>


-----------------------------------------------------------------------------
(* GoveeIntegration::discover and GoveeLight::new *)

GoveeLog(ip) == { <<"Failed to connect to Govee light at", ip>> }

\* lines 150-164: bind the client socket, push one task per configured address
GoveeStart ==
    /\ mainpc = "running"
    /\ tasks["govee"].pc = "ready"
    /\ invoked' = invoked \cup {"govee"}
    /\ netops' = netops \cup {"govee"}
    /\ \/ /\ ClientPort = 0 \/ ~gsock   \* a fixed port must not be bound already
          /\ gsock' = TRUE
          /\ gtasks' = [t \in 1..Len(config.addresses) |->
                          [ip |-> config.addresses[t], pc |-> "new", ok |-> FALSE,
                           light |-> GoveeLightNew(config.addresses[t])]]
          /\ tasks' = [tasks EXCEPT !["govee"].pc = "join"]
          /\ UNCHANGED <<log, outcome>>
       \/ /\ Finish("govee", Err)        \* bind fails: the ? returns the error
          /\ UNCHANGED <<gsock, gtasks>>
    /\ UNCHANGED <<config, mainpc, regIdx, batch, toDevice, inbox, octl, aggregate,
                   callerVars>>

\* a per-address task that starts only when the tasks submitted before it
\* have completed
GoveeNewInTurn(t) ==
    /\ mainpc = "running"
    /\ t \in 1..Len(gtasks)
    /\ gtasks[t].pc = "new"
    /\ \A u \in 1..(t - 1) : gtasks[u].pc = "done"
    /\ IF ~ParsesAsIpv4(gtasks[t].ip)
       THEN /\ gtasks' = [gtasks EXCEPT ![t].pc = "done"]
            /\ log' = log \cup GoveeLog(gtasks[t].ip)
            /\ UNCHANGED toDevice
       ELSE \/ /\ toDevice' = toDevice \cup {[ip |-> gtasks[t].ip, src |-> t]}
               /\ gtasks' = [gtasks EXCEPT ![t].pc = "recv"]
               /\ UNCHANGED log
            \/ /\ gtasks' = [gtasks EXCEPT ![t].pc = "done"]
               /\ log' = log \cup GoveeLog(gtasks[t].ip)
               /\ UNCHANGED toDevice
    /\ UNCHANGED <<config, mainpc, regIdx, batch, tasks, gsock, inbox, octl,
                   aggregate, netops, invoked, outcome, callerVars>>

\* GoveeLight::new up to the first suspension of refresh_state: parse the
\* address, build the handle, send devStatus
GoveeNew(t) ==
    /\ mainpc = "running"
    /\ t \in 1..Len(gtasks)
    /\ gtasks[t].pc = "new"
    /\ IF ~ParsesAsIpv4(gtasks[t].ip)
       THEN /\ gtasks' = [gtasks EXCEPT ![t].pc = "done"]
            /\ log' = log \cup GoveeLog(gtasks[t].ip)
            /\ UNCHANGED toDevice
       ELSE \/ /\ toDevice' = toDevice \cup {[ip |-> gtasks[t].ip, src |-> t]}
               /\ gtasks' = [gtasks EXCEPT ![t].pc = "recv"]
               /\ UNCHANGED log
            \/ /\ gtasks' = [gtasks EXCEPT ![t].pc = "done"]   \* send_to fails
               /\ log' = log \cup GoveeLog(gtasks[t].ip)
               /\ UNCHANGED toDevice
    /\ UNCHANGED <<config, mainpc, regIdx, batch, tasks, gsock, inbox, octl,
                   aggregate, netops, invoked, outcome, callerVars>>

\* The device at a request's address handles it: it answers to the client
\* socket, or stays silent
Device(q) ==
    /\ q \in toDevice
    /\ toDevice' = toDevice \ {q}
    /\ \/ \E d \in Replies(q.ip) : inbox' = Append(inbox, d)
       \/ UNCHANGED inbox
    /\ UNCHANGED <<config, mainpc, regIdx, batch, tasks, gsock, gtasks, octl,
                   aggregate, log, netops, invoked, outcome, callerVars>>

\* a receive that reads the next datagram and leaves it queued on the socket
GoveeRecvPeek(t) ==
    /\ mainpc = "running"
    /\ t \in 1..Len(gtasks)
    /\ gtasks[t].pc = "recv"
    /\ inbox # <<>>
    /\ IF Head(inbox).kind = "devStatus"
       THEN /\ gtasks' = [gtasks EXCEPT ![t] =
                   [@ EXCEPT !.pc = "done", !.ok = TRUE,
                             !.light = ApplyStatus(@, Head(inbox).status)]]
            /\ UNCHANGED log
       ELSE /\ gtasks' = [gtasks EXCEPT ![t].pc = "done"]
            /\ log' = log \cup GoveeLog(gtasks[t].ip)
    /\ UNCHANGED <<config, mainpc, regIdx, batch, tasks, gsock, toDevice, inbox, octl,
                   aggregate, netops, invoked, outcome, callerVars>>

\* recv_from returns the next datagram of the shared socket to a waiting task;
\* refresh_state decodes it and GoveeLight::new returns
GoveeRecv(t) ==
    /\ mainpc = "running"
    /\ t \in 1..Len(gtasks)
    /\ gtasks[t].pc = "recv"
    /\ inbox # <<>>
    /\ inbox' = Tail(inbox)
    /\ IF Head(inbox).kind = "devStatus"
       THEN /\ gtasks' = [gtasks EXCEPT ![t] =
                   [@ EXCEPT !.pc = "done", !.ok = TRUE,
                             !.light = ApplyStatus(@, Head(inbox).status)]]
            /\ UNCHANGED log
       ELSE /\ gtasks' = [gtasks EXCEPT ![t].pc = "done"]
            /\ log' = log \cup GoveeLog(gtasks[t].ip)
    /\ UNCHANGED <<config, mainpc, regIdx, batch, tasks, gsock, toDevice, octl,
                   aggregate, netops, invoked, outcome, callerVars>>

\* line 166: batch.run() returned; collect the lights that were built
GoveeJoin ==
    /\ mainpc = "running"
    /\ tasks["govee"].pc = "join"
    /\ GoveeBatchComplete
    /\ Finish("govee", Ok(Flatten(GoveeBatchResults(gtasks))))
    /\ UNCHANGED <<config, mainpc, regIdx, batch, gsock, gtasks, toDevice, inbox,
                   octl, aggregate, netops, invoked, callerVars>>

-----------------------------------------------------------------------------
(* OpenRgbIntegration::discover *)

\* lines 98-101: parse the configured address, connect
OpenRgbStart ==
    /\ mainpc = "running"
    /\ tasks["openrgb"].pc = "ready"
    /\ invoked' = invoked \cup {"openrgb"}
    /\ IF ~ParsesAsIp(config.openrgbAddress)
       THEN /\ Finish("openrgb", Err)
            /\ UNCHANGED netops
       ELSE /\ netops' = netops \cup {"openrgb"}
            /\ \/ /\ tasks' = [tasks EXCEPT !["openrgb"].pc = "count"]
                  /\ UNCHANGED <<log, outcome>>
               \/ Finish("openrgb", Err)     \* connect_to fails
    /\ UNCHANGED <<config, mainpc, regIdx, batch, gsock, gtasks, toDevice, inbox,
                   octl, aggregate, callerVars>>

\* line 105: get_controller_count
OpenRgbCount ==
    /\ mainpc = "running"
    /\ tasks["openrgb"].pc = "count"
    /\ \/ \E n \in 0..MaxControllers :
            IF n = 0
            THEN /\ Finish("openrgb", Ok(<<>>))
                 /\ UNCHANGED octl
            ELSE /\ octl' = [count |-> n, idx |-> 0, lights |-> <<>>]
                 /\ tasks' = [tasks EXCEPT !["openrgb"].pc = "get"]
                 /\ UNCHANGED <<log, outcome>>
       \/ /\ Finish("openrgb", Err)
          /\ UNCHANGED octl
    /\ UNCHANGED <<config, mainpc, regIdx, batch, gsock, gtasks, toDevice, inbox,
                   aggregate, netops, invoked, callerVars>>

\* lines 106-111: one turn of the loop; line 114 after the last
OpenRgbGet ==
    /\ mainpc = "running"
    /\ tasks["openrgb"].pc = "get"
    /\ \/ \E colors \in ControllerColors :
            LET lights == Append(octl.lights, OpenRgbLightNew(octl.idx, colors)) IN
            /\ octl' = [octl EXCEPT !.idx = @ + 1, !.lights = lights]
            /\ IF octl.idx + 1 = octl.count
               THEN Finish("openrgb", Ok(lights))
               ELSE UNCHANGED <<tasks, log, outcome>>
       \/ /\ Finish("openrgb", Err)      \* get_controller fails: the ? returns
          /\ UNCHANGED octl
    /\ UNCHANGED <<config, mainpc, regIdx, batch, gsock, gtasks, toDevice, inbox,
                   aggregate, netops, invoked, callerVars>>

-----------------------------------------------------------------------------
(* Light accessors *)

Returns(x) == [panic |-> FALSE, v |-> x]
Panicked == [panic |-> TRUE, v |-> 0]

\* colors[0] of the cached controller: indexing an empty Vec panics
FirstColor(l) == l.colors[1]

\* id() of a Kasa or Hue light: "<vendor>::<vendor-local-id>"
ExternalId(l) == Returns(l.vendor \o "::" \o l.id)

\* an id() that returns the vendor-local identifier without the vendor prefix
idBare(l) ==
    IF l.vendor = "openrgb" THEN Returns(ToString(l.controller_id)) ELSE Returns(l.id)

id(l) ==
    IF l.vendor = "govee" THEN Returns("govee::" \o l.id)
    ELSE IF l.vendor = "openrgb" THEN Returns("openrgb::" \o ToString(l.controller_id))
    ELSE ExternalId(l)

name(l) ==
    IF l.vendor = "govee" THEN Returns("Govee Light (" \o l.id \o ")")
    ELSE Returns(l.name)

is_on(l) == IF l.vendor = "govee" THEN Returns(l.is_on) ELSE Returns(TRUE)

brightness(l) == IF l.vendor = "govee" THEN Returns(l.brightness) ELSE Returns(100)

red(l) ==
    IF l.vendor = "govee" THEN Returns(l.red)
    ELSE IF l.colors = <<>> THEN Panicked ELSE Returns(FirstColor(l).b)

green(l) ==
    IF l.vendor = "govee" THEN Returns(l.green)
    ELSE IF l.colors = <<>> THEN Panicked ELSE Returns(FirstColor(l).g)

blue(l) ==
    IF l.vendor = "govee" THEN Returns(l.blue)
    ELSE IF l.colors = <<>> THEN Panicked ELSE Returns(FirstColor(l).r)

supports_color(l) == Returns(TRUE)

-----------------------------------------------------------------------------
(* Light operations of the caller on the returned handles *)

\* handle i may start an operation (&mut self: one operation at a time)
CanCall(i, vendor) ==
    /\ mainpc = "done"
    /\ i \in 1..Len(aggregate)
    /\ aggregate[i].vendor = vendor
    /\ hpc[i] = "idle"
    /\ last.n < MaxOps

\* the record of a completed operation: its arguments, its result, the handle
\* before the call, the datagrams it sent and the datagrams it received
Done(op, i, ok, args, sent, recvs) ==
    [n |-> last.n + 1, op |-> op, idx |-> i, ok |-> ok, args |-> args,
     before |-> aggregate[i], sent |-> sent, recvs |-> recvs]

\* the datagram send_message sends for a request
Datagram(l, cmd, data) == [ip |-> l.id, port |-> DevicePort, cmd |-> cmd, data |-> data]

\* a turn request whose value is the negated flag
TurnValueInverted(on) == IF on THEN 0 ELSE 1

\* Request::Turn { value: on as u8 }
TurnValue(on) == IF on THEN 1 ELSE 0

\* the cache after a successful send of each mutator
GoveeSetOnCache(l, on) == [l EXCEPT !.is_on = on]
GoveeSetColorCache(l, c) == [l EXCEPT !.red = c.r, !.green = c.g, !.blue = c.b]
GoveeSetBrightnessCache(l, level) == [l EXCEPT !.brightness = level]

\* a mutator that writes the cache before it sends
GoveeMutatorCacheFirst(i, op, args, cmd, data, cache) ==
    /\ CanCall(i, "govee")
    /\ aggregate' = [aggregate EXCEPT ![i] = cache]
    /\ \/ last' = Done(op, i, TRUE, args, <<Datagram(aggregate[i], cmd, data)>>, <<>>)
       \/ last' = Done(op, i, FALSE, args, <<>>, <<>>)
    /\ UNCHANGED <<config, mainpc, regIdx, batch, tasks, gsock, gtasks, toDevice,
                   inbox, octl, log, netops, invoked, outcome, hpc>>

\* a mutator that waits for a response (send_message(.., true)) and takes the
\* next datagram of the shared socket
GoveeMutatorRecv(i, op, args, cmd, data, cache) ==
    /\ CanCall(i, "govee")
    /\ inbox # <<>>
    /\ inbox' = Tail(inbox)
    /\ aggregate' = [aggregate EXCEPT ![i] = cache]
    /\ last' = Done(op, i, TRUE, args, <<Datagram(aggregate[i], cmd, data)>>,
                    <<Head(inbox)>>)
    /\ UNCHANGED <<config, mainpc, regIdx, batch, tasks, gsock, gtasks, toDevice,
                   octl, log, netops, invoked, outcome, hpc>>

\* a fire-and-forget mutator: send_message(.., false), then the cache update
GoveeMutator(i, op, args, cmd, data, cache) ==
    /\ CanCall(i, "govee")
    /\ \/ /\ aggregate' = [aggregate EXCEPT ![i] = cache]
          /\ last' = Done(op, i, TRUE, args, <<Datagram(aggregate[i], cmd, data)>>, <<>>)
       \/ /\ last' = Done(op, i, FALSE, args, <<>>, <<>>)     \* send_to fails
          /\ UNCHANGED aggregate
    /\ UNCHANGED <<config, mainpc, regIdx, batch, tasks, gsock, gtasks, toDevice,
                   inbox, octl, log, netops, invoked, outcome, hpc>>

GoveeSetOn(i, on) ==
    GoveeMutator(i, "set_on", <<on>>, "turn", <<TurnValue(on)>>,
                 GoveeSetOnCache(aggregate[i], on))

GoveeSetColor(i, c) ==
    GoveeMutator(i, "set_color", <<c.r, c.g, c.b>>, "colorwc", <<c.r, c.g, c.b>>,
                 GoveeSetColorCache(aggregate[i], c))

GoveeSetBrightness(i, level) ==
    GoveeMutator(i, "set_brightness", <<level>>, "brightness", <<level>>,
                 GoveeSetBrightnessCache(aggregate[i], level))

\* refresh_state up to its suspension in recv_from: send devStatus
GoveeRefreshSend(i) ==
    /\ CanCall(i, "govee")
    /\ \/ /\ toDevice' = toDevice \cup {[ip |-> aggregate[i].id, src |-> i]}
          /\ hpc' = [hpc EXCEPT ![i] = "recv"]
          /\ UNCHANGED last
       \/ /\ last' = Done("refresh_state", i, FALSE, <<>>, <<>>, <<>>)
          /\ UNCHANGED <<toDevice, hpc>>
    /\ UNCHANGED <<config, mainpc, regIdx, batch, tasks, gsock, gtasks, inbox,
                   octl, aggregate, log, netops, invoked, outcome>>

\* a refresh_state that stores the brightness of whatever it received before
\* it looks at the kind of the response
GoveeRefreshRecvPartial(i) ==
    /\ mainpc = "done"
    /\ i \in 1..Len(aggregate)
    /\ hpc[i] = "recv"
    /\ inbox # <<>>
    /\ inbox' = Tail(inbox)
    /\ hpc' = [hpc EXCEPT ![i] = "idle"]
    /\ IF Head(inbox).kind = "devStatus"
       THEN /\ aggregate' = [aggregate EXCEPT ![i] = ApplyStatus(@, Head(inbox).status)]
            /\ last' = Done("refresh_state", i, TRUE, <<>>,
                             <<Datagram(aggregate[i], "devStatus", <<>>)>>, <<Head(inbox)>>)
       ELSE /\ aggregate' = [aggregate EXCEPT
                                ![i].brightness = Head(inbox).status.brightness]
            /\ last' = Done("refresh_state", i, FALSE, <<>>,
                             <<Datagram(aggregate[i], "devStatus", <<>>)>>, <<Head(inbox)>>)
    /\ UNCHANGED <<config, mainpc, regIdx, batch, tasks, gsock, gtasks, toDevice,
                   octl, log, netops, invoked, outcome>>

\* refresh_state from recv_from on: decode the datagram, replace the cache
GoveeRefreshRecv(i) ==
    /\ mainpc = "done"
    /\ i \in 1..Len(aggregate)
    /\ hpc[i] = "recv"
    /\ inbox # <<>>
    /\ inbox' = Tail(inbox)
    /\ hpc' = [hpc EXCEPT ![i] = "idle"]
    /\ IF Head(inbox).kind = "devStatus"
       THEN /\ aggregate' = [aggregate EXCEPT ![i] = ApplyStatus(@, Head(inbox).status)]
            /\ last' = Done("refresh_state", i, TRUE, <<>>,
                             <<Datagram(aggregate[i], "devStatus", <<>>)>>, <<Head(inbox)>>)
       ELSE /\ last' = Done("refresh_state", i, FALSE, <<>>,
                             <<Datagram(aggregate[i], "devStatus", <<>>)>>, <<Head(inbox)>>)
            /\ UNCHANGED aggregate
    /\ UNCHANGED <<config, mainpc, regIdx, batch, tasks, gsock, gtasks, toDevice,
                   octl, log, netops, invoked, outcome>>

\* OpenRgbLight::set_color: update_leds; the cached controller is not touched
OpenRgbSetColor(i, c) ==
    /\ CanCall(i, "openrgb")
    /\ \E ok \in BOOLEAN : last' = Done("set_color", i, ok, <<c.r, c.g, c.b>>, <<>>, <<>>)
    /\ UNCHANGED <<config, mainpc, regIdx, batch, tasks, gsock, gtasks, toDevice,
                   inbox, octl, aggregate, log, netops, invoked, outcome, hpc>>

\* OpenRgbLight::set_on and set_brightness: Ok(()) and nothing else
OpenRgbSetOn(i, on) ==
    /\ CanCall(i, "openrgb")
    /\ last' = Done("set_on", i, TRUE, <<on>>, <<>>, <<>>)
    /\ UNCHANGED <<config, mainpc, regIdx, batch, tasks, gsock, gtasks, toDevice,
                   inbox, octl, aggregate, log, netops, invoked, outcome, hpc>>

OpenRgbSetBrightness(i, level) ==
    /\ CanCall(i, "openrgb")
    /\ last' = Done("set_brightness", i, TRUE, <<level>>, <<>>, <<>>)
    /\ UNCHANGED <<config, mainpc, regIdx, batch, tasks, gsock, gtasks, toDevice,
                   inbox, octl, aggregate, log, netops, invoked, outcome, hpc>>

\* OpenRgbLight::refresh_state: get_controller replaces the cached controller
OpenRgbRefresh(i) ==
    /\ CanCall(i, "openrgb")
    /\ \/ \E colors \in ControllerColors :
            /\ aggregate' = [aggregate EXCEPT ![i].colors = colors]
            /\ last' = Done("refresh_state", i, TRUE, <<>>, <<>>, <<>>)
       \/ /\ last' = Done("refresh_state", i, FALSE, <<>>, <<>>, <<>>)
          /\ UNCHANGED aggregate
    /\ UNCHANGED <<config, mainpc, regIdx, batch, tasks, gsock, gtasks, toDevice,
                   inbox, octl, log, netops, invoked, outcome, hpc>>

-----------------------------------------------------------------------------
(* The discovery pass *)

Next ==
    \/ Register
    \/ RunStart
    \/ RunReturn
    \/ \E vendor \in {"kasa", "hue"} : ExternalDiscover(vendor)
    \/ GoveeStart
    \/ \E t \in 1..Len(gtasks) : GoveeNew(t)
    \/ \E q \in toDevice : Device(q)
    \/ \E t \in 1..Len(gtasks) : GoveeRecv(t)
    \/ GoveeJoin
    \/ OpenRgbStart
    \/ OpenRgbCount
    \/ OpenRgbGet

Spec == Init /\ [][Next]_vars

-----------------------------------------------------------------------------
(* The discovery pass followed by the caller's use of the handles *)

\* The configurations whose handles the caller then uses: Govee alone with two
\* devices, or OpenRGB alone with a server address that parses. Handles of
\* different vendors share no state.
InitLive ==
    /\ Init
    /\ \/ /\ config.enabled = [n \in Integrations |-> n = "govee"]
          /\ config.addresses = <<"10.0.0.5", "10.0.0.6">>
       \/ /\ config.enabled = [n \in Integrations |-> n = "openrgb"]
          /\ config.addresses = <<>>
          /\ config.openrgbAddress = "127.0.0.1"

LiveNext ==
    \/ Register
    \/ RunStart
    \/ RunReturn
    \/ GoveeStart
    \/ \E t \in 1..Len(gtasks) : GoveeNew(t)
    \/ \E q \in toDevice : Device(q)
    \/ \E t \in 1..Len(gtasks) : GoveeRecv(t)
    \/ GoveeJoin
    \/ OpenRgbStart
    \/ OpenRgbCount
    \/ OpenRgbGet
    \/ \E i \in 1..Len(aggregate), on \in BOOLEAN : GoveeSetOn(i, on)
    \/ \E i \in 1..Len(aggregate), c \in Colours : GoveeSetColor(i, c)
    \/ \E i \in 1..Len(aggregate), level \in Levels : GoveeSetBrightness(i, level)
    \/ \E i \in 1..Len(aggregate) : GoveeRefreshSend(i)
    \/ \E i \in 1..Len(aggregate) : GoveeRefreshRecv(i)
    \/ \E i \in 1..Len(aggregate), c \in Colours : OpenRgbSetColor(i, c)
    \/ \E i \in 1..Len(aggregate), on \in BOOLEAN : OpenRgbSetOn(i, on)
    \/ \E i \in 1..Len(aggregate), level \in Levels : OpenRgbSetBrightness(i, level)
    \/ \E i \in 1..Len(aggregate) : OpenRgbRefresh(i)

LiveSpec == InitLive /\ [][LiveNext]_vars

-----------------------------------------------------------------------------
(* The discovery pass over the integrations of src/integrations *)

\* Kasa and Hue are disabled: the tasks of the pass are those of Govee and
\* OpenRGB and the per-address tasks of Govee discovery
InitOwn ==
    /\ Init
    /\ ~config.enabled["kasa"]
    /\ ~config.enabled["hue"]

OwnNext ==
    \/ Register
    \/ RunStart
    \/ RunReturn
    \/ GoveeStart
    \/ \E t \in 1..Len(gtasks) : GoveeNew(t)
    \/ \E q \in toDevice : Device(q)
    \/ \E t \in 1..Len(gtasks) : GoveeRecv(t)
    \/ GoveeJoin
    \/ OpenRgbStart
    \/ OpenRgbCount
    \/ OpenRgbGet

OwnSpec == InitOwn /\ [][OwnNext]_vars

-----------------------------------------------------------------------------
(* Two discovery passes of one process *)

\* The caller calls discover_lights again. The client socket of the pass
\* before stays bound for as long as the caller holds a handle that was built
\* on it; when the pass built no handle, the socket was closed when discover
\* returned.
DiscoverAgain ==
    /\ mainpc = "done"
    /\ mainpc' = "register"
    /\ regIdx' = 1
    /\ batch' = <<>>
    /\ tasks' = [n \in Integrations |-> [pc |-> "idle", value |-> <<>>]]
    /\ gtasks' = <<>>
    /\ IF gsock /\ (\/ \E i \in 1..Len(aggregate) : aggregate[i].vendor = "govee"
                 \/ outcome["govee"].ret = "err")
       THEN gsock' \in BOOLEAN
       ELSE gsock' = FALSE
    /\ netops' = {}
    /\ invoked' = {}
    /\ outcome' = [n \in Integrations |-> [ret |-> "none", lights |-> <<>>]]
    /\ UNCHANGED <<config, toDevice, inbox, octl, aggregate, log, callerVars>>

\* Govee alone, with two devices
InitAgain ==
    /\ Init
    /\ config.enabled = [n \in Integrations |-> n = "govee"]
    /\ config.addresses = <<"10.0.0.5", "10.0.0.6">>

AgainNext ==
    \/ Register
    \/ RunStart
    \/ RunReturn
    \/ GoveeStart
    \/ \E t \in 1..Len(gtasks) : GoveeNew(t)
    \/ \E q \in toDevice : Device(q)
    \/ \E t \in 1..Len(gtasks) : GoveeRecv(t)
    \/ GoveeJoin
    \/ DiscoverAgain

AgainSpec == InitAgain /\ [][AgainNext]_vars

-----------------------------------------------------------------------------
(* Properties *)

\* the lights of one vendor in the aggregate, in aggregate order
Contribution(n) == SelectSeq(aggregate, LAMBDA l : l.vendor = n)

\* the handles whose implementation is in integrations/govee.rs and openrgb.rs
OwnHandles == { i \in 1..Len(aggregate) : aggregate[i].vendor \in {"govee", "openrgb"} }

\* the addresses of the per-address tasks that built a light, in task order
RECURSIVE BuiltAddrs(_)
BuiltAddrs(ts) ==
    IF ts = <<>> THEN <<>>
    ELSE (IF Head(ts).ok THEN <<Head(ts).ip>> ELSE <<>>) \o BuiltAddrs(Tail(ts))

\* C1: when discover_lights has returned, an integration whose discover failed
\* contributes no light and has its failure logged, and every integration
\* whose discover succeeded contributes exactly the lights it returned.
C1_FaultIsolation ==
    mainpc = "done" =>
        \A n \in Integrations :
            /\ outcome[n].ret = "err" =>
                  /\ Contribution(n) = <<>>
                  /\ <<"Failed to discover lights for", n>> \in log
            /\ outcome[n].ret = "ok" => Contribution(n) = outcome[n].lights

C1_Witness ==
    /\ mainpc = "done"
    /\ \E n, m \in Integrations :
          /\ outcome[n].ret = "err"
          /\ outcome[m].ret = "ok"
          /\ Contribution(m) # <<>>

\* C2: an integration whose preflight is false never has its discover invoked,
\* performs no network operation and contributes no light.
C2_PreflightGating ==
    \A n \in Integrations :
        ~Preflight(n) =>
            /\ n \notin invoked
            /\ n \notin netops
            /\ tasks[n].pc = "idle"
            /\ Contribution(n) = <<>>
            /\ n = "govee" => (~gsock /\ gtasks = <<>> /\ toDevice = {} /\ inbox = <<>>)

C2_Witness ==
    /\ mainpc = "done"
    /\ ~Preflight("govee")
    /\ config.addresses # <<>>
    /\ aggregate # <<>>

\* C3: run() returns only when every submitted task has completed, and every
\* task's result is in what it returns exactly once, for the Discoverer's batch
\* and for the per-address batch of Govee discovery.
C3_JoinBarrier ==
    /\ mainpc = "done" =>
          /\ \A k \in 1..Len(batch) : tasks[batch[k]].pc = "done"
          /\ \A n \in Integrations : Contribution(n) = tasks[n].value
    /\ outcome["govee"].ret = "ok" =>
          /\ Len(gtasks) = Len(config.addresses)
          /\ \A t \in 1..Len(gtasks) : gtasks[t].pc = "done"
          /\ Len(outcome["govee"].lights) = Cardinality({ t \in 1..Len(gtasks) : gtasks[t].ok })

C3_Witness ==
    /\ mainpc = "done"
    /\ Len(batch) >= 3
    /\ Len(gtasks) >= 2
    /\ outcome["govee"].ret = "ok"
    /\ Len(outcome["govee"].lights) = 1

\* the device of the single configured address received devStatus and does
\* not answer
SilentDevice ==
    /\ Preflight("govee")
    /\ Len(config.addresses) = 1
    /\ Len(gtasks) = 1
    /\ gtasks[1].pc = "recv"
    /\ toDevice = {}
    /\ inbox = <<>>

\* C4: with Govee enabled, one configured address and a device that never
\* answers devStatus, the pass does not stop before discover_lights has
\* returned, and it returns no Govee light and a logged diagnostic.
C4_NonRespondingCompletes ==
    /\ SilentDevice => ENABLED Next
    /\ (mainpc = "done" /\ Preflight("govee") /\ Len(config.addresses) = 1
          /\ ParsesAsIpv4(config.addresses[1]) /\ Contribution("govee") = <<>>)
       => log # {}

\* C5: after a mutator returned success, the accessors return the requested value.
C5_WriteThrough ==
    (last.op \in {"set_on", "set_color", "set_brightness"} /\ last.ok) =>
        LET l == aggregate[last.idx] IN
        /\ last.op = "set_on" => is_on(l) = Returns(last.args[1])
        /\ last.op = "set_brightness" => brightness(l) = Returns(last.args[1])
        /\ last.op = "set_color" =>
              /\ red(l) = Returns(last.args[1])
              /\ green(l) = Returns(last.args[2])
              /\ blue(l) = Returns(last.args[3])

\* C6: a mutator that failed returned its error and left every cached field
\* as it was; the handle can be called again (no failure is latched); a
\* mutator changes the cache only when its send succeeded.
C6_FailedMutator ==
    last.op \in {"set_on", "set_color", "set_brightness"} =>
        /\ ~last.ok => aggregate[last.idx] = last.before
        /\ aggregate[last.idx] # last.before => last.ok
        /\ (last.ok /\ aggregate[last.idx].vendor = "govee") => Len(last.sent) = 1
        /\ (~last.ok /\ aggregate[last.idx].vendor = "govee"
              /\ hpc[last.idx] = "idle" /\ last.n < MaxOps) =>
                 /\ ENABLED GoveeSetOn(last.idx, TRUE)
                 /\ ENABLED GoveeRefreshSend(last.idx)

C6_Witness ==
    /\ last.op = "set_color"
    /\ ~last.ok
    /\ last.n < MaxOps
    /\ aggregate[last.idx].vendor = "govee"
    /\ <<aggregate[last.idx].red, aggregate[last.idx].green, aggregate[last.idx].blue>>
         # last.args

\* C7: discover does not fail as a whole when some device is unreachable or
\* fails its initial read: it returns exactly the lights whose read succeeded.
C7_PartialFailure ==
    /\ (tasks["govee"].pc = "done" /\ gsock) =>
          /\ outcome["govee"].ret = "ok"
          /\ [k \in 1..Len(outcome["govee"].lights) |-> outcome["govee"].lights[k].id]
               = BuiltAddrs(gtasks)
    /\ (tasks["openrgb"].pc = "done" /\ octl.lights # <<>>) =>
          /\ outcome["openrgb"].ret = "ok"
          /\ outcome["openrgb"].lights = octl.lights

C9_UniqueIds ==
    mainpc = "done" =>
        \A i, j \in 1..Len(aggregate) : i # j => id(aggregate[i]) # id(aggregate[j])

\* C10: on every returned handle every accessor returns a value: none panics.
C10_AccessorsTotal ==
    mainpc = "done" =>
        \A i \in OwnHandles :
            LET l == aggregate[i] IN
            /\ ~id(l).panic /\ ~name(l).panic /\ ~is_on(l).panic
            /\ ~red(l).panic /\ ~green(l).panic /\ ~blue(l).panic
            /\ ~brightness(l).panic /\ ~supports_color(l).panic

C12_BooleanWire ==
    (last.op \in {"set_on", "refresh_state"} /\ last.ok
        /\ aggregate[last.idx].vendor = "govee") =>
        /\ last.op = "set_on" =>
              /\ Len(last.sent) = 1
              /\ last.sent[1].cmd = "turn"
              /\ last.args[1] => last.sent[1].data = <<1>>
              /\ ~last.args[1] => last.sent[1].data = <<0>>
        /\ last.op = "refresh_state" =>
              /\ last.recvs[1].status.onOff \in {0, 1}
              /\ last.recvs[1].status.onOff = 1
                    => is_on(aggregate[last.idx]) = Returns(TRUE)
              /\ last.recvs[1].status.onOff = 0
                    => is_on(aggregate[last.idx]) = Returns(FALSE)

\* set_on(false) on a handle whose flag was decoded from onOff = 1
C12_Witness ==
    /\ last.op = "set_on"
    /\ last.ok
    /\ aggregate[last.idx].vendor = "govee"
    /\ last.args = <<FALSE>>
    /\ last.before.is_on
    /\ last.sent[1].data = <<0>>

\* the vendor-local identifier of a light: the address of a Govee, Kasa or Hue
\* device, the controller index of an OpenRGB controller
LocalId(l) == IF l.vendor = "openrgb" THEN ToString(l.controller_id) ELSE l.id

\* C13: two returned lights of different vendors have different id() values,
\* also when their vendor-local identifiers are the same.
C13_Namespacing ==
    mainpc = "done" =>
        \A i, j \in 1..Len(aggregate) :
            aggregate[i].vendor # aggregate[j].vendor
                => id(aggregate[i]) # id(aggregate[j])

\* a Govee light and a light of another vendor with the same local identifier
C13_Witness ==
    /\ mainpc = "done"
    /\ \E i, j \in 1..Len(aggregate) :
          /\ aggregate[i].vendor = "govee"
          /\ aggregate[j].vendor # "govee"
          /\ LocalId(aggregate[i]) = LocalId(aggregate[j])
          /\ id(aggregate[i]) = Returns("govee::10.0.0.5")

\* the handle of task t was built from the status of the device at ip
HoldsStatusOf(t, ip) ==
    /\ gtasks[t].ok
    /\ gtasks[t].light = ApplyStatus(GoveeLightNew(gtasks[t].ip), DeviceStatus(ip))

\* the handle of task t was built from the status of another handle's device
Misattributed(t) ==
    \E ip \in ValidAddrs \ {gtasks[t].ip} : HoldsStatusOf(t, ip)

\* the status replies of the device at ip that are queued on the client socket
QueuedFrom(ip) ==
    { k \in 1..Len(inbox) :
        inbox[k].kind = "devStatus" /\ inbox[k].status = DeviceStatus(ip) }

\* C14: the per-address handles of one pass share one socket, and a reply has
\* nothing that ties it to a handle: a handle's cache is the status of a
\* device that some handle of the pass asked, not always its own; a handle
\* holds another device's status only when another handle asked that device;
\* and each reply is received once, so no more handles hold (and no more
\* replies are queued of) a device's status than handles asked that device.
C14_SharedSocketHazard ==
    /\ \A t \in 1..Len(gtasks) :
          gtasks[t].ok =>
              \E u \in 1..Len(gtasks) :
                  /\ gtasks[u].pc \in {"recv", "done"}
                  /\ HoldsStatusOf(t, gtasks[u].ip)
    /\ \A t \in 1..Len(gtasks) :
          Misattributed(t) =>
              \E u \in 1..Len(gtasks) \ {t} :
                  /\ gtasks[u].ip # gtasks[t].ip
                  /\ HoldsStatusOf(t, gtasks[u].ip)
    /\ \A ip \in ValidAddrs :
          Cardinality({ t \in 1..Len(gtasks) : HoldsStatusOf(t, ip) })
              + Cardinality(QueuedFrom(ip))
            <= Cardinality({ u \in 1..Len(gtasks) :
                               gtasks[u].ip = ip /\ gtasks[u].pc \in {"recv", "done"} })

\* discovery returned a handle for 10.0.0.5 whose cache is the status that the
\* device at 10.0.0.6 sent
C14_Witness ==
    /\ mainpc = "done"
    /\ \E t \in 1..Len(gtasks) :
          /\ gtasks[t].ip = "10.0.0.5"
          /\ HoldsStatusOf(t, "10.0.0.6")
          /\ \E i \in 1..Len(aggregate) : aggregate[i] = gtasks[t].light
    /\ \E i \in 1..Len(aggregate) :
          /\ id(aggregate[i]) = Returns("govee::10.0.0.5")
          /\ brightness(aggregate[i]) = Returns(DeviceStatus("10.0.0.6").brightness)

Mutators == {"set_on", "set_color", "set_brightness"}

\* C16: a step in which a Govee set_on, set_brightness or set_color returns
\* sent at most one datagram, to the handle's own address and the device
\* port (exactly one when the send succeeded), received nothing and left the
\* datagrams queued on the shared socket and the devStatus requests in flight
\* as they were; a refresh_state that starts sends one devStatus request to
\* its own address, and a refresh_state that returns after its send took
\* exactly one datagram, the first queued on the socket.
C16_FireAndForget ==
    [][ /\ (last'.n # last.n /\ aggregate[last'.idx].vendor = "govee") =>
             /\ last'.op \in Mutators =>
                   /\ inbox' = inbox
                   /\ toDevice' = toDevice
                   /\ hpc' = hpc
                   /\ last'.recvs = <<>>
                   /\ last'.ok =>
                         /\ Len(last'.sent) = 1
                         /\ last'.sent[1].ip = aggregate[last'.idx].id
                         /\ last'.sent[1].port = DevicePort
                         /\ last'.sent[1].cmd # "devStatus"
                   /\ ~last'.ok => last'.sent = <<>>
             /\ (last'.op = "refresh_state" /\ hpc[last'.idx] = "recv") =>
                   /\ last'.sent = <<Datagram(aggregate[last'.idx], "devStatus", <<>>)>>
                   /\ Len(last'.recvs) = 1
                   /\ inbox = <<last'.recvs[1]>> \o inbox'
                   /\ toDevice' = toDevice
             /\ (last'.op = "refresh_state" /\ hpc[last'.idx] = "idle") =>
                   /\ ~last'.ok
                   /\ last'.sent = <<>> /\ last'.recvs = <<>>
                   /\ inbox' = inbox /\ toDevice' = toDevice
        /\ \A i \in 1..Len(hpc) :
             (hpc[i] = "idle" /\ Len(hpc') = Len(hpc) /\ hpc'[i] = "recv") =>
                   /\ toDevice' = toDevice \cup {[ip |-> aggregate[i].id, src |-> i]}
                   /\ inbox' = inbox
      ]_vars

\* a mutator returned while the reply to another handle's devStatus exchange
\* was queued on the shared socket, and the reply is still queued
C16_Witness ==
    /\ last.op \in Mutators
    /\ last.ok
    /\ aggregate[last.idx].vendor = "govee"
    /\ last.sent[1].ip = aggregate[last.idx].id
    /\ inbox # <<>>
    /\ Head(inbox).kind = "devStatus"
    /\ toDevice = {}
    /\ \E j \in 1..Len(hpc) : j # last.idx /\ hpc[j] = "recv"

\* C17: a Govee refresh_state that returned success received one devStatus
\* response and every cached field (is_on, brightness, red, green, blue) has
\* the value of that response; one that returned an error (its send failed,
\* or what it received is not a devStatus response) left the handle as it was
\* before the call.
C17_AtomicRefresh ==
    (last.op = "refresh_state" /\ aggregate[last.idx].vendor = "govee") =>
        LET l == aggregate[last.idx] IN
        /\ last.ok =>
              /\ Len(last.recvs) = 1
              /\ last.recvs[1].kind = "devStatus"
              /\ LET st == last.recvs[1].status IN
                   /\ is_on(l) = Returns(st.onOff = 1)
                   /\ brightness(l) = Returns(st.brightness)
                   /\ red(l) = Returns(st.r)
                   /\ green(l) = Returns(st.g)
                   /\ blue(l) = Returns(st.b)
              /\ id(l) = id(last.before)
        /\ ~last.ok =>
              /\ l = last.before
              /\ last.recvs = <<>> \/ last.recvs[1].kind # "devStatus"

\* a refresh_state that succeeded and changed each of the five cached fields
C17_Witness ==
    /\ last.op = "refresh_state"
    /\ last.ok
    /\ aggregate[last.idx].vendor = "govee"
    /\ aggregate[last.idx].is_on # last.before.is_on
    /\ aggregate[last.idx].brightness # last.before.brightness
    /\ aggregate[last.idx].red # last.before.red
    /\ aggregate[last.idx].green # last.before.green
    /\ aggregate[last.idx].blue # last.before.blue

\* a refresh_state that received something else than a devStatus response
C17_WitnessFailed ==
    /\ last.op = "refresh_state"
    /\ ~last.ok
    /\ aggregate[last.idx].vendor = "govee"
    /\ last.recvs # <<>>
    /\ last.before.brightness # last.recvs[1].status.brightness

\* C18: brightness() of every returned Govee handle lies in 0..100, after
\* discovery and after every refresh_state and set_brightness.
C18_BrightnessRange ==
    mainpc = "done" =>
        \A i \in 1..Len(aggregate) :
            aggregate[i].vendor = "govee" =>
                /\ ~brightness(aggregate[i]).panic
                /\ brightness(aggregate[i]).v \in 0..100

\* C19: in every pass the bind of the client socket can succeed, whether or
\* not handles of an earlier pass still hold the socket of that pass.
C19_SocketAddressing ==
    (mainpc = "running" /\ tasks["govee"].pc = "ready") =>
        ENABLED (GoveeStart /\ tasks'["govee"].pc = "join")

\* C20: on an OpenRGB handle whose cached controller has a first LED of
\* colour (r, g, b), read at discovery or by refresh_state, red() returns r,
\* green() returns g and blue() returns b.
C20_ChannelMapping ==
    mainpc = "done" =>
        \A i \in 1..Len(aggregate) :
            (aggregate[i].vendor = "openrgb" /\ aggregate[i].colors # <<>>) =>
                /\ red(aggregate[i]) = Returns(aggregate[i].colors[1].r)
                /\ green(aggregate[i]) = Returns(aggregate[i].colors[1].g)
                /\ blue(aggregate[i]) = Returns(aggregate[i].colors[1].b)

====
